---- MODULE Spec2Model ----
(***************************************************************************)
(* A model of dataset/dataset/dataset.py: the Dataset class (data,         *)
(* features, target, meta) with its column operations, and the stepwise    *)
(* feature-selection loop over an external p-value oracle.                 *)
(*                                                                         *)
(* A table is a sequence of columns; a column is a record                  *)
(*   [name, dtype, vals]                                                   *)
(* where dtype is "object" or "num" and vals holds one cell per row.  A    *)
(* cell is "NA" (missing) or a tag of the value's provenance: "v" a raw    *)
(* number, "x"/"y" a raw category, "s" standard-scaled, "n" power-         *)
(* transformed, "k" box-cox transformed, "g" a row aggregate, "f" the      *)
(* fill value of replace_na, "0"/"1" an indicator produced by get_dummies. *)
(***************************************************************************)
EXTENDS Integers, Sequences, FiniteSets, TLC

VARIABLES data, features, target, meta, last, nops,
          pc, included, changed, pval, thr_in, thr_out, step, rerun

vars == <<data, features, target, meta, last, nops,
          pc, included, changed, pval, thr_in, thr_out, step, rerun>>

dsvars == <<data, features, target, meta>>
swvars == <<pc, included, changed, pval, thr_in, thr_out, step, rerun>>

\* ---------------------------------------------------------------- bounds
NRows == 2
MaxOps == 2
MaxP == 3

\* ------------------------------------------------------------- constants
meta_tags == {"all", "numerical", "categorical", "complete",
              "numerical_na", "categorical_na", "features", "target"}

\* self.target = None
NoSeries == [name |-> "None", dtype |-> "none", vals |-> <<>>]

\* ------------------------------------------------------- table helpers
SeqToSet(s) == {s[i] : i \in 1..Len(s)}

\* list(df): the column labels, in order
Labels(tbl) == [i \in 1..Len(tbl) |-> tbl[i].name]

LabelSet(tbl) == {tbl[i].name : i \in 1..Len(tbl)}

\* df[name] for a label that is present
Col(tbl, name) == tbl[CHOOSE i \in 1..Len(tbl) : tbl[i].name = name]

\* df.drop(name, axis=1) for a label that is present
DropCol(tbl, name) == SelectSeq(tbl, LAMBDA c : c.name # name)

\* df[name] = values: overwrite in place, or append a new column
SetCol(tbl, c) ==
    IF c.name \in LabelSet(tbl)
    THEN [i \in 1..Len(tbl) |-> IF tbl[i].name = c.name THEN c ELSE tbl[i]]
    ELSE Append(tbl, c)

\* series.isna().sum()
NAs(c) == Cardinality({i \in 1..Len(c.vals) : c.vals[i] = "NA"})

\* a column holding only missing values (what reindexing yields for an
\* absent label)
NACol(name) == [name |-> name, dtype |-> "num", vals |-> [i \in 1..NRows |-> "NA"]]

\* ------------------------------------------------------------ metainfo
NamesWhere(descr, P(_)) ==
    LET s == SelectSeq(descr, P) IN [i \in 1..Len(s) |-> s[i].name]

MetaInfo(d, f, t) ==
    LET descr == [i \in 1..Len(f) |->
                    [name |-> f[i].name, dtype |-> f[i].dtype, NAs |-> NAs(f[i])]]
    IN [description    |-> descr,
        all            |-> Labels(d),
        features       |-> Labels(f),
        target         |-> t.name,
        categorical    |-> NamesWhere(descr, LAMBDA r : r.dtype = "object"),
        categorical_na |-> NamesWhere(descr, LAMBDA r : r.dtype = "object" /\ r.NAs > 0),
        numerical      |-> NamesWhere(descr, LAMBDA r : r.dtype # "object"),
        numerical_na   |-> NamesWhere(descr, LAMBDA r : r.dtype # "object" /\ r.NAs > 0),
        complete       |-> NamesWhere(descr, LAMBDA r : r.NAs = 0)]

\* self.meta[which] for a tag other than 'target' (a list of labels)
MetaList(m, tag) ==
    CASE tag = "all"            -> m.all
      [] tag = "features"       -> m.features
      [] tag = "categorical"    -> m.categorical
      [] tag = "categorical_na" -> m.categorical_na
      [] tag = "numerical"      -> m.numerical
      [] tag = "numerical_na"   -> m.numerical_na
      [] tag = "complete"       -> m.complete

\* ------------------------------------------------------ pandas indexing
\* A result of an indexing expression or of select/names: err is "ok" or
\* the exception raised; kind is "frame", "series", "names" or "scalar".
Raise(e) == [err |-> e, kind |-> "none", tbl |-> <<>>, names |-> <<>>, scalar |-> "None"]

Frame(tbl) == [err |-> "ok", kind |-> "frame", tbl |-> tbl, names |-> Labels(tbl), scalar |-> "None"]

Series(c) == [err |-> "ok", kind |-> "series", tbl |-> <<c>>, names |-> <<c.name>>, scalar |-> c.name]

\* df[labels] with a list of labels: every label must be present
GetItemList(tbl, labels) ==
    IF SeqToSet(labels) \subseteq LabelSet(tbl)
    THEN Frame([i \in 1..Len(labels) |-> Col(tbl, labels[i])])
    ELSE Raise("KeyError")

\* df.loc[:, labels] with a list of labels.  With every label present it is
\* the sub-table.  With a label absent the outcome depends on the pandas
\* release: KeyError, or (releases that reindex, when at least one label is
\* present) the sub-table with an all-missing column for each absent label.
LocList(tbl, labels) ==
    IF SeqToSet(labels) \subseteq LabelSet(tbl)
    THEN {Frame([i \in 1..Len(labels) |-> Col(tbl, labels[i])])}
    ELSE IF SeqToSet(labels) \cap LabelSet(tbl) = {}
    THEN {Raise("KeyError")}
    ELSE {Raise("KeyError"),
          Frame([i \in 1..Len(labels) |->
                   IF labels[i] \in LabelSet(tbl) THEN Col(tbl, labels[i])
                   ELSE NACol(labels[i])])}

\* df.loc[:, label] with one label (meta['target'] is a name or None)
LocLabel(tbl, label) ==
    IF label \in LabelSet(tbl) THEN Series(Col(tbl, label)) ELSE Raise("KeyError")

\* ------------------------------------------------------- select / names
\* The argument `which` of select and names: a list of labels (isList), or
\* any other value, of which only the strings in meta_tags are recognised.
ListSel(labels) == [isList |-> TRUE, tag |-> "", labels |-> labels]

TagSel(tag) == [isList |-> FALSE, tag |-> tag, labels |-> <<>>]

\* select(which): the set of outcomes the call can have
SelectOutcomes(f, m, which) ==
    IF which.isList THEN LocList(f, which.labels)
    ELSE IF which.tag \notin meta_tags THEN {Raise("AssertionError")}
    ELSE IF which.tag = "target" THEN {LocLabel(f, m.target)}
    ELSE LocList(f, MetaList(m, which.tag))

NamesAcceptingLists(m, which) ==
    IF which.isList
    THEN [err |-> "ok", kind |-> "names", tbl |-> <<>>, names |-> which.labels, scalar |-> "None"]
    ELSE IF which.tag \notin meta_tags THEN Raise("AssertionError")
    ELSE IF which.tag = "target"
    THEN [err |-> "ok", kind |-> "scalar", tbl |-> <<>>, names |-> <<>>, scalar |-> m.target]
    ELSE [err |-> "ok", kind |-> "names", tbl |-> <<>>,
          names |-> MetaList(m, which.tag), scalar |-> "None"]

\* names(which): a list is not in meta_tags, so the assertion rejects it
NamesOutcome(m, which) ==
    IF which.isList \/ which.tag \notin meta_tags THEN Raise("AssertionError")
    ELSE IF which.tag = "target"
    THEN [err |-> "ok", kind |-> "scalar", tbl |-> <<>>, names |-> <<>>, scalar |-> m.target]
    ELSE [err |-> "ok", kind |-> "names", tbl |-> <<>>,
          names |-> MetaList(m, which.tag), scalar |-> "None"]

\* ------------------------------------------------------------ set_target
\* The outcome of a mutating operation: the new features (f), target (t)
\* and data (d), the exception if any, whether metainfo() ran (meta), and
\* whether meta was read after features changed and before metainfo()
\* recomputed it (stale).
SetTargetKeepingColumn(d, f, t, target_name) ==
    IF target_name \in LabelSet(f)
    THEN [err |-> "ok", f |-> f, t |-> Col(f, target_name)]
    ELSE IF target_name \in LabelSet(d)
    THEN [err |-> "ok", f |-> f, t |-> Col(d, target_name)]
    ELSE [err |-> "KeyError", f |-> f, t |-> t]

SetTargetOutcome(d, f, t, target_name) ==
    IF target_name \in LabelSet(f)
    THEN [err |-> "ok", f |-> DropCol(f, target_name), t |-> Col(f, target_name)]
    ELSE IF target_name \in LabelSet(d)
    THEN [err |-> "ok", f |-> f, t |-> Col(d, target_name)]
    ELSE [err |-> "KeyError", f |-> f, t |-> t]

\* ------------------------------------------- scale / ensure_normality
\* The transform oracle on one column: missing cells stay missing, every
\* other cell becomes the transformed value `cell`; the result is float.
TransformCol(c, cell) ==
    [name |-> c.name, dtype |-> "num",
     vals |-> [i \in 1..Len(c.vals) |-> IF c.vals[i] = "NA" THEN "NA" ELSE cell]]

\* self.features[labels] = transformed, for labels all present in features
AssignTransformed(f, labels, cell) ==
    [i \in 1..Len(f) |-> IF f[i].name \in SeqToSet(labels)
                         THEN TransformCol(f[i], cell) ELSE f[i]]

TransformSkippedWhenReturning(f, m, tag, cell, return_series) ==
    IF return_series THEN f ELSE AssignTransformed(f, MetaList(m, tag), cell)

\* Lines 148-151 and 175-178: the assignment happens whatever return_series is
TransformInPlace(f, m, tag, cell, return_series) ==
    AssignTransformed(f, MetaList(m, tag), cell)

\* The body shared by scale (cell "s") and ensure_normality (cell "n"):
\* the set of outcomes [err, f, ran] where ran says the assignment and
\* metainfo() were reached.
TransformOutcomes(f, m, tag, cell, return_series) ==
    IF tag \notin meta_tags THEN {[err |-> "AssertionError", f |-> f, ran |-> FALSE]}
    ELSE LET subsets == SelectOutcomes(f, m, TagSel(tag)) IN
      UNION {
        IF sub.err # "ok" THEN {[err |-> sub.err, f |-> f, ran |-> FALSE]}
        ELSE IF sub.kind = "series"
        THEN {[err |-> "AttributeError", f |-> f, ran |-> FALSE]}
        ELSE IF \E i \in 1..Len(sub.tbl) : sub.tbl[i].dtype = "object"
        THEN {[err |-> "ValueError", f |-> f, ran |-> FALSE]}
        ELSE IF ~(SeqToSet(MetaList(m, tag)) \subseteq LabelSet(f))
        THEN {[err |-> "KeyError", f |-> f, ran |-> FALSE]}
        ELSE IF Len(sub.tbl) = 0
        THEN {[err |-> "ValueError", f |-> f, ran |-> FALSE],
              [err |-> "ok", f |-> f, ran |-> TRUE]}
        ELSE {[err |-> "ok", f |-> TransformInPlace(f, m, tag, cell, return_series),
               ran |-> TRUE]}
        : sub \in subsets }

\* ---------------------------------------------------------- skewness
\* The columns whose skew can exceed the threshold: skew() of a column with
\* a missing value is NaN, and NaN > threshold is false.
SkewEligible(df) ==
    {df[i].name : i \in {j \in 1..Len(df) : df[j].dtype # "object" /\ NAs(df[j]) = 0}}

\* Lines 195-197: self.features[feature] = boxcox1p(df[feature], ...) for
\* every feature of high_skew; metainfo() is not called.
\* boxcox1p is NaN where 1 + x is negative: the features in nan come back
\* all missing.
RECURSIVE FixSkew(_, _, _, _)
FixSkew(f, df, high, nan) ==
    IF high = {} THEN f
    ELSE LET h == CHOOSE x \in high : TRUE
             c == IF h \in nan THEN NACol(h) ELSE TransformCol(Col(df, h), "k")
         IN FixSkew(SetCol(f, c), df, high \ {h}, nan)

\* ------------------------------------------------------ onehot_encode
\* The order in which get_dummies lays out the categories (sorted)
CategoryOrder == <<"g", "x", "y">>

\* pd.get_dummies(series, prefix=name): one indicator column per distinct
\* non-missing value; a missing cell is 0 in every indicator
GetDummies(c) ==
    LET cats == SelectSeq(CategoryOrder, LAMBDA v : \E i \in 1..Len(c.vals) : c.vals[i] = v)
    IN [k \in 1..Len(cats) |->
          [name |-> c.name \o "_" \o cats[k], dtype |-> "num",
           vals |-> [i \in 1..Len(c.vals) |-> IF c.vals[i] = cats[k] THEN "1" ELSE "0"]]]

\* Lines 206-213: the loop over names('categorical'); features[column]
\* raises KeyError for a label that is absent
RECURSIVE EncodeLoop(_, _, _)
EncodeLoop(new_df, f, cats) ==
    IF cats = <<>> THEN [err |-> "ok", f |-> new_df]
    ELSE IF Head(cats) \notin LabelSet(f) THEN [err |-> "KeyError", f |-> f]
    ELSE EncodeLoop(new_df \o GetDummies(Col(f, Head(cats))), f, Tail(cats))

OnehotOutcome(f, m) ==
    LET new_df == GetItemList(f, m.numerical)
    IN IF new_df.err # "ok" THEN [err |-> new_df.err, f |-> f]
       ELSE EncodeLoop(new_df.tbl, f, m.categorical)

\* -------------------------------------------------------- drop_columns
\* Lines 414-416: the loop of drop_columns.  mf is meta['features'] as it
\* was when the loop started (metainfo() runs only after the loop); dirty
\* says features has changed since meta was computed.  stale: some
\* iteration read meta while dirty.
RECURSIVE DropLoop(_, _, _, _)
DropLoop(f, mf, cols, dirty) ==
    IF cols = <<>> THEN [err |-> "ok", f |-> f, stale |-> FALSE]
    ELSE IF Head(cols) \in SeqToSet(mf)
         THEN IF Head(cols) \in LabelSet(f)
              THEN LET r == DropLoop(DropCol(f, Head(cols)), mf, Tail(cols), TRUE)
                   IN [r EXCEPT !.stale = @ \/ dirty]
              ELSE [err |-> "KeyError", f |-> f, stale |-> dirty]
         ELSE LET r == DropLoop(f, mf, Tail(cols), dirty)
              IN [r EXCEPT !.stale = @ \/ dirty]

\* -------------------------------------------------------- keep_columns
\* Line 430: list(set(list(self.features)) - set(to_keep)); the order of a
\* set is arbitrary, the labels are distinct, and the loop's result does not
\* depend on the order: the order of features is taken.
ToDrop(f, to_keep) == SelectSeq(Labels(f), LAMBDA c : c \notin SeqToSet(to_keep))

\* ----------------------------------------------------------- aggregate
\* The operations the model passes: 'sum' is an attribute of DataFrame,
\* 'bogus' is not (line 461).
DataFrameAttrs == {"sum"}

\* The dtype of getattr(features[col_list], operation)(axis=1): numeric
\* when any column is numeric or there is none; for object columns alone
\* the release decides between string concatenation and a numeric fallback.
AggDtypes(f, col_list) ==
    IF col_list # <<>> /\ \A i \in 1..Len(col_list) : Col(f, col_list[i]).dtype = "object"
    THEN {"num", "object"} ELSE {"num"}

AggCol(new_column, dtype) ==
    [name |-> new_column, dtype |-> dtype, vals |-> [i \in 1..NRows |-> "g"]]

\* Lines 461-470: outcomes [err, f, stale, ran]; ran: metainfo() was reached
AggregateOutcomes(f, m, col_list, new_column, operation, drop_columns) ==
    IF operation \notin DataFrameAttrs
    THEN {[err |-> "AssertionError", f |-> f, stale |-> FALSE, ran |-> FALSE]}
    ELSE IF ~(SeqToSet(col_list) \subseteq LabelSet(f))
    THEN {[err |-> "AssertionError", f |-> f, stale |-> FALSE, ran |-> FALSE]}
    ELSE { LET f1 == SetCol(f, AggCol(new_column, dt))
           IN IF drop_columns
              THEN LET r == DropLoop(f1, m.features, col_list, TRUE)
                   IN [err |-> r.err, f |-> r.f, stale |-> r.stale, ran |-> r.err = "ok"]
              ELSE [err |-> "ok", f |-> f1, stale |-> FALSE, ran |-> TRUE]
           : dt \in AggDtypes(f, col_list) }

\* -------------------------------------------------------- drop_samples
\* Line 477: the frame self.data.drop(self.data.index[index_list]) builds,
\* the table without the rows at the (0-based) positions of index_list.
\* The call returns it; the table it is called on is left as it was.
DropRows(tbl, index_list) ==
    LET keep == {r \in 1..NRows : (r - 1) \notin SeqToSet(index_list)}
        nth(k) == CHOOSE r \in keep : Cardinality({q \in keep : q <= r}) = k
    IN [i \in 1..Len(tbl) |->
          [tbl[i] EXCEPT !.vals = [k \in 1..Cardinality(keep) |-> tbl[i].vals[nth(k)]]]]

\* ---------------------------------------------------------- replace_na
FillCol(c) ==
    [c EXCEPT !.vals = [i \in 1..Len(c.vals) |-> IF c.vals[i] = "NA" THEN "f" ELSE c.vals[i]]]

\* Lines 486-490: self.data[col].fillna(value, inplace=True) for each
\* column; a label absent from data raises KeyError after the earlier
\* columns were filled.  Returns [err, d].
RECURSIVE FillLoop(_, _)
FillLoop(d, cols) ==
    IF cols = <<>> THEN [err |-> "ok", d |-> d]
    ELSE IF Head(cols) \notin LabelSet(d) THEN [err |-> "KeyError", d |-> d]
    ELSE FillLoop(SetCol(d, FillCol(Col(d, Head(cols)))), Tail(cols))

\* ------------------------------------------------- stepwise_selection
\* Lines 320-322: the assertion on the categorical view is the only check
\* made before the loop; self.target is not looked at.
StepwisePrecondition(m, t) == Len(m.categorical) = 0

\* The p-value oracle: pval[<<S, c>>] is the p-value the fit of the target
\* on the feature set S (plus intercept) reports for the coefficient of c.
\* P-values and thresholds are levels 0..MaxP; only their order matters.
PVals == 0..MaxP

FitPairs(cols) == {q \in (SUBSET cols) \X cols : q[2] \in q[1]}

\* Lines 329-332: the forward p-value of a candidate
NewPval(p, incl, new_column) == p[<<SeqToSet(incl) \cup {new_column}, new_column>>]

ForwardAnyBelow(p, cols, incl, threshold_in) ==
    {c \in cols \ SeqToSet(incl) : NewPval(p, incl, c) < threshold_in}

\* Lines 327-336: the features the forward step may append: none when no
\* candidate is left (min() of an empty series is NaN) or the minimum is
\* not below threshold_in; otherwise a candidate holding the minimum.
\* idxmin() takes the first one in the order of list(set(...)), which is
\* arbitrary: with ties any of them may be taken.
ForwardChoices(p, cols, incl, threshold_in) ==
    LET excluded == cols \ SeqToSet(incl)
    IN {c \in excluded : /\ \A o \in excluded : NewPval(p, incl, c) <= NewPval(p, incl, o)
                         /\ NewPval(p, incl, c) < threshold_in}

\* list.remove(x): the first occurrence goes
RemoveFirst(incl, x) ==
    LET k == CHOOSE i \in 1..Len(incl) : incl[i] = x /\ \A j \in 1..(i - 1) : incl[j] # x
    IN [i \in 1..(Len(incl) - 1) |-> IF i < k THEN incl[i] ELSE incl[i + 1]]

BackwardRemovingBest(p, incl, threshold_out) ==
    LET S == SeqToSet(incl)
        best == CHOOSE i \in 1..Len(incl) :
                  /\ \A j \in 1..Len(incl) : p[<<S, incl[i]>>] <= p[<<S, incl[j]>>]
                  /\ \A j \in 1..(i - 1) : p[<<S, incl[j]>>] > p[<<S, incl[i]>>]
    IN IF incl # <<>> /\ \E j \in 1..Len(incl) : p[<<S, incl[j]>>] > threshold_out
       THEN incl[best] ELSE "None"

\* Lines 342-350: the feature the backward step removes, or "None": the
\* first feature, in the order of included, holding the maximum p-value of
\* the fit on included, when that maximum exceeds threshold_out (max() of
\* an empty series is NaN, and NaN > threshold_out is false).
\* Series.argmax() is read as returning the label, as it did in the pandas
\* releases the code targets.
BackwardChoice(p, incl, threshold_out) ==
    LET S == SeqToSet(incl)
        worst == CHOOSE i \in 1..Len(incl) :
                   /\ \A j \in 1..Len(incl) : p[<<S, incl[j]>>] <= p[<<S, incl[i]>>]
                   /\ \A j \in 1..(i - 1) : p[<<S, incl[j]>>] < p[<<S, incl[i]>>]
    IN IF incl # <<>> /\ p[<<S, incl[worst]>>] > threshold_out
       THEN incl[worst] ELSE "None"

InitialIncludedEmpty(initial_list) == <<>>

\* Line 323: included = list(initial_list), a copy in the same order
\* (initial_list None stands for the empty list, lines 320-321)
InitialIncluded(initial_list) == initial_list

\* What the current iteration did: phase "none" (not started), "fwd" (the
\* forward step ran) or "bwd" (the backward step ran too); before and mid
\* are included as the forward and the backward step found it.
NoStep == [phase |-> "none", before |-> <<>>, added |-> "None",
           mid |-> <<>>, removed |-> "None"]

\* ------------------------------------------------------------- inputs
\* Cells of a raw numeric column: k missing values, then numbers
NumInit == {[i \in 1..NRows |-> IF i <= k THEN "NA" ELSE "v"] : k \in 0..NRows}

\* Cells of a raw text column: k missing values, then one or two categories
ObjInit == {[i \in 1..NRows |-> IF i <= k THEN "NA"
                                ELSE IF alt /\ i % 2 = 0 THEN "y" ELSE "x"]
            : k \in 0..NRows, alt \in BOOLEAN}

Complete == [i \in 1..NRows |-> "v"]

TargetArgs == {"a", "b", "t", "zz"}
TagArgs == meta_tags \cup {"bogus"}
TransformTagArgs == {"numerical", "all", "bogus"}
NamesTagArgs == {"numerical", "target", "bogus"}
ListArgs == {<<"a">>, <<"a", "zz">>, <<"zz">>}
DropArgs == {<<"a">>, <<"zz">>, <<"a", "b">>, <<"a", "a">>}
KeepArgs == {<<"a">>, <<"a", "zz">>, <<>>}
\* aggregate(col_list, new_column, operation, drop_columns)
AggArgs == {<<<<"a", "t">>, "s", "sum", TRUE>>,
            <<<<"a", "t">>, "s", "sum", FALSE>>,
            <<<<"a", "a">>, "s", "sum", TRUE>>,
            <<<<"b">>, "s", "sum", TRUE>>,
            <<<<"a", "b">>, "a", "sum", TRUE>>,
            <<<<"zz">>, "s", "sum", TRUE>>,
            <<<<"a", "t">>, "s", "bogus", TRUE>>}
FillArgs == {<<"a">>, <<"a", "b">>, <<"b", "zz">>}
SeriesArgs == {[name |-> "n", dtype |-> "num", vals |-> Complete],
               [name |-> "a", dtype |-> "num", vals |-> Complete]}
IndexArgs == {<<0>>, <<NRows>>}

\* ------------------------------------------------------ history record
\* last: the call that produced the current state.  pre is the dataset as
\* the call found it; ret is what select/names returned (or raised);
\* stale: the call read meta after changing features and before
\* metainfo(); fit: the call asked the regression oracle for a fit; chain:
\* every call made on the Dataset since its construction, this one
\* included, was a set_target.
Pre == [data |-> data, features |-> features, target |-> target, meta |-> meta]

Call(op, arg, flag, err, ret, stale, fit) ==
    [op |-> op, arg |-> arg, flag |-> flag, err |-> err, ret |-> ret,
     stale |-> stale, fit |-> fit, pre |-> Pre,
     chain |-> last.chain /\ op = "set_target"]

NoRet == Raise("none")

\* ------------------------------------------------------------- actions
Idle == pc = "idle" /\ nops < MaxOps

\* set_target(target_name), lines 81-87
SetTarget(target_name) ==
    /\ Idle
    /\ LET r == SetTargetOutcome(data, features, target, target_name) IN
         /\ features' = r.f
         /\ target' = r.t
         /\ meta' = IF r.err = "ok" THEN MetaInfo(data, r.f, r.t) ELSE meta
         /\ last' = Call("set_target", target_name, FALSE, r.err, NoRet, FALSE, FALSE)
    /\ nops' = nops + 1
    /\ UNCHANGED <<data, swvars>>

\* The transform of scale (cell "s") and ensure_normality (cell "n").
\* return_series: the call returns self.features[self.names(tag)].
Transform(op, cell, tag, return_series) ==
    /\ Idle
    /\ \E r \in TransformOutcomes(features, meta, tag, cell, return_series) :
         /\ features' = r.f
         /\ meta' = IF r.ran THEN MetaInfo(data, r.f, target) ELSE meta
         /\ last' = Call(op, tag, return_series, r.err,
                         IF r.err = "ok" /\ return_series
                         THEN GetItemList(r.f, MetaList(meta', tag)) ELSE NoRet,
                         FALSE, FALSE)
    /\ nops' = nops + 1
    /\ UNCHANGED <<data, target, swvars>>

\* scale(features_of_type, return_series), lines 144-156
Scale(tag, return_series) == Transform("scale", "s", tag, return_series)

\* ensure_normality(features_of_type, return_series), lines 169-181
EnsureNormality(tag, return_series) == Transform("ensure_normality", "n", tag, return_series)

\* skewness(threshold, fix, return_series), lines 188-199; which features
\* the skew oracle reports above the threshold is the oracle's choice
Skewness(fix) ==
    /\ Idle
    /\ \E df \in SelectOutcomes(features, meta, TagSel("numerical")) :
         IF df.err # "ok"
         THEN /\ features' = features
              /\ last' = Call("skewness", <<>>, fix, df.err, NoRet, FALSE, FALSE)
         ELSE \E high \in (IF fix THEN SUBSET SkewEligible(df.tbl) ELSE {{}}) :
              \E nan \in SUBSET high :
              /\ features' = FixSkew(features, df.tbl, high, nan)
              /\ last' = Call("skewness", high, fix, "ok", NoRet, FALSE, FALSE)
    /\ nops' = nops + 1
    /\ UNCHANGED <<data, target, meta, swvars>>

\* onehot_encode(), lines 205-216
OnehotEncode ==
    /\ Idle
    /\ LET r == OnehotOutcome(features, meta) IN
         /\ features' = r.f
         /\ meta' = IF r.err = "ok" THEN MetaInfo(data, r.f, target) ELSE meta
         /\ last' = Call("onehot_encode", <<>>, FALSE, r.err, NoRet, FALSE, FALSE)
    /\ nops' = nops + 1
    /\ UNCHANGED <<data, target, swvars>>

\* select(which), lines 373-377
Select(which) ==
    /\ Idle
    /\ \E r \in SelectOutcomes(features, meta, which) :
         last' = Call("select", which, FALSE, r.err, r, FALSE, FALSE)
    /\ nops' = nops + 1
    /\ UNCHANGED <<dsvars, swvars>>

\* names(which), lines 388-389
Names(which) ==
    /\ Idle
    /\ LET r == NamesOutcome(meta, which) IN
         last' = Call("names", which, FALSE, r.err, r, FALSE, FALSE)
    /\ nops' = nops + 1
    /\ UNCHANGED <<dsvars, swvars>>

\* add_column(serie), lines 399-402
AddColumn(serie) ==
    /\ Idle
    /\ IF serie.name \notin SeqToSet(meta.features)
       THEN /\ features' = SetCol(features, serie)
            /\ meta' = MetaInfo(data, features', target)
       ELSE UNCHANGED <<features, meta>>
    /\ last' = Call("add_column", serie.name, FALSE, "ok", NoRet, FALSE, FALSE)
    /\ nops' = nops + 1
    /\ UNCHANGED <<data, target, swvars>>

\* drop_columns(columns_list), lines 412-418; a bare name is wrapped into a
\* one-element list
DropColumns(columns_list) ==
    /\ Idle
    /\ LET r == DropLoop(features, meta.features, columns_list, FALSE) IN
         /\ features' = r.f
         /\ meta' = IF r.err = "ok" THEN MetaInfo(data, r.f, target) ELSE meta
         /\ last' = Call("drop_columns", columns_list, FALSE, r.err, NoRet, r.stale, FALSE)
    /\ nops' = nops + 1
    /\ UNCHANGED <<data, target, swvars>>

\* keep_columns(to_keep), lines 428-432
KeepColumns(to_keep) ==
    /\ Idle
    /\ LET r == DropLoop(features, meta.features, ToDrop(features, to_keep), FALSE) IN
         /\ features' = r.f
         /\ meta' = IF r.err = "ok" THEN MetaInfo(data, r.f, target) ELSE meta
         /\ last' = Call("keep_columns", to_keep, FALSE, r.err, NoRet, r.stale, FALSE)
    /\ nops' = nops + 1
    /\ UNCHANGED <<data, target, swvars>>

\* aggregate(col_list, new_column, operation, drop_columns), lines 461-471
Aggregate(col_list, new_column, operation, drop_columns) ==
    /\ Idle
    /\ \E r \in AggregateOutcomes(features, meta, col_list, new_column,
                                  operation, drop_columns) :
         /\ features' = r.f
         /\ meta' = IF r.ran THEN MetaInfo(data, r.f, target) ELSE meta
         /\ last' = Call("aggregate", col_list, drop_columns, r.err, NoRet, r.stale, FALSE)
    /\ nops' = nops + 1
    /\ UNCHANGED <<data, target, swvars>>

\* drop_samples(index_list), lines 477-479: self.data.index[index_list]
\* raises IndexError for a position out of range; the frame data.drop()
\* returns is discarded
DropSamples(index_list) ==
    /\ Idle
    /\ LET err == IF \A i \in 1..Len(index_list) : index_list[i] < NRows
                  THEN "ok" ELSE "IndexError" IN
         /\ meta' = IF err = "ok" THEN MetaInfo(data, features, target) ELSE meta
         /\ last' = Call("drop_samples", index_list, FALSE, err, NoRet, FALSE, FALSE)
    /\ nops' = nops + 1
    /\ UNCHANGED <<data, features, target, swvars>>

\* replace_na(column, value), lines 486-492; a bare name is one column
ReplaceNa(column) ==
    /\ Idle
    /\ LET r == FillLoop(data, column) IN
         /\ data' = r.d
         /\ meta' = IF r.err = "ok" THEN MetaInfo(r.d, features, target) ELSE meta
         /\ last' = Call("replace_na", column, FALSE, r.err, NoRet, FALSE, FALSE)
    /\ nops' = nops + 1
    /\ UNCHANGED <<features, target, swvars>>

\* stepwise_selection() as the dataset sees it, lines 320-343: the
\* assertion, then the loop, whose first statement that involves the
\* target is a fit request sm.OLS(self.target, ...).  With target None the
\* regression oracle raises.  Nothing of the dataset is assigned.
StepwiseCall ==
    /\ Idle
    /\ last' = IF ~StepwisePrecondition(meta, target)
               THEN Call("stepwise_selection", <<>>, FALSE, "AssertionError", NoRet, FALSE, FALSE)
               ELSE IF target = NoSeries
               THEN Call("stepwise_selection", <<>>, FALSE, "OracleError", NoRet, FALSE, TRUE)
               ELSE Call("stepwise_selection", <<>>, FALSE, "ok", NoRet, FALSE, TRUE)
    /\ nops' = nops + 1
    /\ UNCHANGED <<dsvars, swvars>>

\* ---------------------------------------------------- the Dataset spec
\* __init__, lines 55-64: features is a copy of data, target is None
InitData(d) ==
    /\ data = d
    /\ features = d
    /\ target = NoSeries
    /\ meta = MetaInfo(d, d, NoSeries)
    /\ last = [op |-> "init", arg |-> <<>>, flag |-> FALSE, err |-> "ok", ret |-> NoRet,
               stale |-> FALSE, fit |-> FALSE,
               pre |-> [data |-> d, features |-> d, target |-> NoSeries,
                        meta |-> MetaInfo(d, d, NoSeries)],
               chain |-> TRUE]
    /\ nops = 0

InitIdle ==
    /\ pc = "idle"
    /\ included = <<>>
    /\ changed = FALSE
    /\ pval = <<>>
    /\ thr_in = 0
    /\ thr_out = 0
    /\ step = NoStep
    /\ rerun = FALSE

Init ==
    /\ \E av \in NumInit, bv \in ObjInit, withB \in BOOLEAN :
         InitData(<<[name |-> "a", dtype |-> "num", vals |-> av]>>
                  \o (IF withB THEN <<[name |-> "b", dtype |-> "object", vals |-> bv]>>
                      ELSE <<>>)
                  \o <<[name |-> "t", dtype |-> "num", vals |-> Complete]>>)
    /\ InitIdle

Next ==
    \/ \E target_name \in TargetArgs : SetTarget(target_name)
    \/ \E tag \in TransformTagArgs, return_series \in BOOLEAN : Scale(tag, return_series)
    \/ \E tag \in TransformTagArgs, return_series \in BOOLEAN :
         EnsureNormality(tag, return_series)
    \/ \E fix \in BOOLEAN : Skewness(fix)
    \/ OnehotEncode
    \/ \E tag \in TagArgs : Select(TagSel(tag))
    \/ \E labels \in ListArgs : Select(ListSel(labels))
    \/ \E tag \in NamesTagArgs : Names(TagSel(tag))
    \/ \E labels \in ListArgs : Names(ListSel(labels))
    \/ \E serie \in SeriesArgs : AddColumn(serie)
    \/ \E columns_list \in DropArgs : DropColumns(columns_list)
    \/ \E to_keep \in KeepArgs : KeepColumns(to_keep)
    \/ \E a \in AggArgs : Aggregate(a[1], a[2], a[3], a[4])
    \/ \E index_list \in IndexArgs : DropSamples(index_list)
    \/ \E column \in FillArgs : ReplaceNa(column)
    \/ StepwiseCall

Spec == Init /\ [][Next]_vars

\* ------------------------------------------- the stepwise-selection loop
\* stepwise_selection(initial_list, threshold_in, threshold_out), lines
\* 320-323, entered with the target set.  rerun records that the call
\* follows a call that returned, on the same dataset, with initial_list the
\* list that call returned and with the same thresholds.
StepwiseEnter(initial_list, threshold_in, threshold_out) ==
    /\ pc \in {"idle", "done"}
    /\ target # NoSeries
    /\ IF StepwisePrecondition(meta, target)
       THEN /\ pc' = "forward"
            /\ last' = Call("stepwise_selection", initial_list, FALSE, "ok", NoRet, FALSE, TRUE)
       ELSE /\ pc' = "idle"
            /\ last' = Call("stepwise_selection", initial_list, FALSE, "AssertionError",
                            NoRet, FALSE, FALSE)
    /\ included' = InitialIncluded(initial_list)
    /\ thr_in' = threshold_in
    /\ thr_out' = threshold_out
    /\ changed' = FALSE
    /\ step' = NoStep
    /\ rerun' = /\ pc = "done"
                /\ initial_list = included
                /\ threshold_in = thr_in
                /\ threshold_out = thr_out
    /\ UNCHANGED <<dsvars, nops, pval>>

\* Lines 325-340: changed = False, then the forward step
Forward ==
    /\ pc = "forward"
    /\ LET best == ForwardChoices(pval, LabelSet(features), included, thr_in) IN
         IF best = {}
         THEN /\ included' = included
              /\ changed' = FALSE
              /\ step' = [phase |-> "fwd", before |-> included, added |-> "None",
                          mid |-> included, removed |-> "None"]
         ELSE \E best_feature \in best :
              /\ included' = Append(included, best_feature)
              /\ changed' = TRUE
              /\ step' = [phase |-> "fwd", before |-> included, added |-> best_feature,
                          mid |-> included', removed |-> "None"]
    /\ pc' = "backward"
    /\ UNCHANGED <<dsvars, last, nops, pval, thr_in, thr_out, rerun>>

\* Lines 342-356: the backward step, then break and return when the
\* iteration changed nothing
Backward ==
    /\ pc = "backward"
    /\ LET worst_feature == BackwardChoice(pval, included, thr_out) IN
         IF worst_feature = "None"
         THEN /\ included' = included
              /\ changed' = changed
              /\ step' = [step EXCEPT !.phase = "bwd"]
         ELSE /\ included' = RemoveFirst(included, worst_feature)
              /\ changed' = TRUE
              /\ step' = [step EXCEPT !.phase = "bwd", !.removed = worst_feature]
    /\ pc' = IF changed' THEN "forward" ELSE "done"
    /\ UNCHANGED <<dsvars, last, nops, pval, thr_in, thr_out, rerun>>

\* The dataset the loop runs on: numeric columns a, n and the target t
StepData == <<[name |-> "a", dtype |-> "num", vals |-> Complete],
              [name |-> "n", dtype |-> "num", vals |-> Complete],
              [name |-> "t", dtype |-> "num", vals |-> Complete]>>

\* initial_list: distinct columns of features, in any order
InitialLists == {<<>>, <<"a">>, <<"n">>, <<"a", "n">>, <<"n", "a">>}

InitStep ==
    /\ LET r == SetTargetOutcome(StepData, StepData, NoSeries, "t") IN
         /\ data = StepData
         /\ features = r.f
         /\ target = r.t
         /\ meta = MetaInfo(StepData, r.f, r.t)
         /\ last = [op |-> "set_target", arg |-> "t", flag |-> FALSE, err |-> "ok",
                    ret |-> NoRet, stale |-> FALSE, fit |-> FALSE,
                    pre |-> [data |-> StepData, features |-> StepData, target |-> NoSeries,
                             meta |-> MetaInfo(StepData, StepData, NoSeries)],
                    chain |-> TRUE]
    /\ nops = 1
    /\ pc = "idle"
    /\ included = <<>>
    /\ changed = FALSE
    /\ pval \in [FitPairs({"a", "n"}) -> PVals]
    /\ thr_in = 0
    /\ thr_out = 0
    /\ step = NoStep
    /\ rerun = FALSE

NextStep ==
    \/ \E initial_list \in InitialLists, threshold_in \in PVals, threshold_out \in PVals :
         StepwiseEnter(initial_list, threshold_in, threshold_out)
    \/ Forward
    \/ Backward

\* The loop is one thread running to completion: a step that can be taken
\* is taken.
SpecStep == InitStep /\ [][NextStep]_vars /\ WF_vars(NextStep)

\* =================================================================
\* Properties of the Dataset operations (specification Spec)
\* =================================================================
MutatingOps == {"set_target", "scale", "ensure_normality", "onehot_encode",
                "add_column", "drop_columns", "keep_columns", "aggregate",
                "replace_na", "drop_samples"}

Unchanged ==
    /\ data = last.pre.data
    /\ features = last.pre.features
    /\ target = last.pre.target
    /\ meta = last.pre.meta

\* C1: after any sequence of mutating operations, meta['numerical'] and
\* meta['categorical'] are disjoint and their union is exactly the column
\* set of features.
C1_MetaPartitionsFeatures ==
    last.op \in MutatingOps =>
      /\ SeqToSet(meta.numerical) \cap SeqToSet(meta.categorical) = {}
      /\ SeqToSet(meta.numerical) \cup SeqToSet(meta.categorical) = LabelSet(features)

\* C2: whenever a mutating operation returns, every entry of meta equals
\* what metainfo() computes from the current features and target, and the
\* operation did not read meta between changing features and recomputing
\* meta.
C2_MetaNeverStale ==
    (last.op \in MutatingOps /\ last.err = "ok") =>
      /\ LET m == MetaInfo(data, features, target) IN
           /\ meta.features = m.features
           /\ meta.target = m.target
           /\ meta.numerical = m.numerical
           /\ meta.categorical = m.categorical
           /\ meta.complete = m.complete
           /\ meta.numerical_na = m.numerical_na
           /\ meta.categorical_na = m.categorical_na
      /\ ~last.stale

\* C3: after replace_na(column, value) returns, every named column has no
\* missing value in features, is in neither *_na view and is in
\* meta['complete'].
C3_ReplaceNaFillsFeatures ==
    (last.op = "replace_na" /\ last.err = "ok") =>
      \A c \in SeqToSet(last.arg) \cap LabelSet(features) :
         /\ NAs(Col(features, c)) = 0
         /\ c \notin SeqToSet(meta.numerical_na) \cup SeqToSet(meta.categorical_na)
         /\ c \in SeqToSet(meta.complete)

\* C4: after set_target(t) for a column t of the working table, t is no
\* longer a column of features, meta['target'] = t, every remaining column
\* is numerical iff its type is not object, categorical iff it is, in the
\* matching *_na view iff it has a missing value, complete iff it has none,
\* and t is in none of the views.
C4_SetTargetClassifies ==
    (last.op = "set_target" /\ last.arg \in LabelSet(last.pre.features)) =>
      /\ last.err = "ok"
      /\ target = Col(last.pre.features, last.arg)
      /\ meta.target = last.arg
      /\ features = SelectSeq(last.pre.features, LAMBDA c : c.name # last.arg)
      /\ \A i \in 1..Len(features) :
           LET c == features[i]
               missing == \E r \in 1..Len(c.vals) : c.vals[r] = "NA"
           IN /\ c.name \in SeqToSet(meta.numerical) <=> c.dtype # "object"
              /\ c.name \in SeqToSet(meta.categorical) <=> c.dtype = "object"
              /\ c.name \in SeqToSet(meta.numerical_na) <=> (c.dtype # "object" /\ missing)
              /\ c.name \in SeqToSet(meta.categorical_na) <=> (c.dtype = "object" /\ missing)
              /\ c.name \in SeqToSet(meta.complete) <=> ~missing
      /\ last.arg \notin UNION {SeqToSet(MetaList(meta, tag)) :
                                tag \in meta_tags \ {"all", "target"}}

\* The scenario of the specification: [a numeric complete, b text with
\* missing values, t]; set_target('t') has run.
C4_Witness ==
    /\ last.op = "set_target" /\ last.arg = "t" /\ last.err = "ok"
    /\ Labels(last.pre.features) = <<"a", "b", "t">>
    /\ meta.numerical = <<"a">> /\ meta.categorical = <<"b">>
    /\ meta.categorical_na = <<"b">> /\ meta.complete = <<"a">>

\* names(tag) as a list of labels: meta['target'] is one name, or None
TagLabels(m, tag) ==
    IF tag = "target" THEN (IF m.target = "None" THEN <<>> ELSE <<m.target>>)
    ELSE MetaList(m, tag)

\* C5: in every reachable state select(tag) succeeds for each of the eight
\* tags and returns the sub-table whose columns are exactly names(tag).
C5_SelectTagSucceeds ==
    (last.op = "select" /\ ~last.arg.isList /\ last.arg.tag \in meta_tags) =>
      /\ last.err = "ok"
      /\ last.ret.kind = "frame"
      /\ last.ret.names = TagLabels(meta, last.arg.tag)
      /\ \A i \in 1..Len(last.ret.tbl) :
           /\ last.ret.names[i] \in LabelSet(features)
           /\ last.ret.tbl[i] = Col(features, last.ret.names[i])

TransformedVals(c, cell) ==
    [r \in 1..Len(c.vals) |-> IF c.vals[r] = "NA" THEN "NA" ELSE cell]

C8_StepwisePrecondition ==
    last.op = "stepwise_selection" =>
      /\ Unchanged
      /\ (target = NoSeries \/ Len(meta.categorical) > 0)
           => (last.err = "AssertionError" /\ ~last.fit)
      /\ last.fit => (target # NoSeries /\ Len(meta.categorical) = 0)

\* C13: on a freshly constructed Dataset, after each call of any sequence
\* of set_target calls (a second call naming another column, or a column no
\* longer in features, included), the columns of features are exactly the
\* columns of data except the current target column, in the order of data.
C13_FeaturesExcludeOnlyTarget ==
    (last.op = "set_target" /\ last.chain) =>
      Labels(features) = SelectSeq(Labels(data), LAMBDA c : c # target.name)

\* C12: after drop_samples(index_list) returns, the rows at the listed
\* positions are gone from the dataset's tables: data, and features with it,
\* are the tables the call found without those rows.
C12_DropSamplesRemovesRows ==
    (last.op = "drop_samples" /\ last.err = "ok") =>
      /\ data = DropRows(last.pre.data, last.arg)
      /\ features = DropRows(last.pre.features, last.arg)

\* C14: drop_columns(columns_list) never raises, whatever names the list
\* holds (absent from features, repeated): it removes exactly the listed
\* columns that are present, leaves every other column as it was and
\* recomputes meta; keep_columns(L) likewise leaves exactly the previous
\* columns that are in L.
C14_DropColumnsNeverFails ==
    /\ last.op = "drop_columns" =>
         /\ last.err = "ok"
         /\ features = SelectSeq(last.pre.features,
                                 LAMBDA c : c.name \notin SeqToSet(last.arg))
         /\ meta = MetaInfo(data, features, target)
    /\ last.op = "keep_columns" =>
         /\ last.err = "ok"
         /\ features = SelectSeq(last.pre.features,
                                 LAMBDA c : c.name \in SeqToSet(last.arg))
         /\ meta = MetaInfo(data, features, target)

\* =================================================================
\* Properties of the stepwise-selection loop (specification SpecStep)
\* =================================================================
\* C9: in every iteration a feature is appended only if it is a candidate
\* not yet included whose forward p-value (fit on included plus the
\* candidate) is the minimum over the candidates and strictly below
\* threshold_in; a feature is removed exactly when the maximum p-value of
\* the fit on included strictly exceeds threshold_out, and the feature
\* removed holds that maximum; at most one feature is added and at most one
\* removed per iteration.
C9_ForwardBackwardRule ==
    /\ step.phase \in {"fwd", "bwd"} =>
         LET S == SeqToSet(step.before)
             E == LabelSet(features) \ S
             fp(c) == pval[<<S \cup {c}, c>>]
         IN IF step.added = "None" THEN step.mid = step.before
            ELSE /\ step.added \in E
                 /\ fp(step.added) < thr_in
                 /\ \A c \in E : fp(step.added) <= fp(c)
                 /\ step.mid = Append(step.before, step.added)
    /\ step.phase = "fwd" => included = step.mid
    /\ step.phase = "bwd" =>
         LET M == SeqToSet(step.mid)
             bp(c) == pval[<<M, c>>]
         IN IF step.removed = "None"
            THEN /\ included = step.mid
                 /\ \A c \in M : bp(c) <= thr_out
            ELSE /\ step.removed \in M
                 /\ bp(step.removed) > thr_out
                 /\ \A c \in M : bp(c) <= bp(step.removed)
                 /\ Len(included) = Len(step.mid) - 1
                 /\ SeqToSet(included) = M \ {step.removed}

\* An iteration added one feature and removed another
C9_Witness ==
    /\ step.phase = "bwd"
    /\ step.added = "n" /\ step.removed = "a"
    /\ step.before = <<"a">> /\ included = <<"n">>

C11_IdempotentOnResult ==
    rerun =>
      /\ last.op = "stepwise_selection" /\ last.err = "ok"
      /\ included = last.arg
      /\ step.added = "None" /\ step.removed = "None"
      /\ step.phase # "none" => (step.before = last.arg /\ step.mid = last.arg)
      /\ step.phase = "bwd" => pc = "done"
      /\ pc \in {"forward", "backward", "done"}

\* The second call returned a result that holds two features
C11_Witness ==
    /\ rerun /\ pc = "done" /\ step.phase = "bwd"
    /\ Len(included) = 2 /\ included = last.arg

\* The second call returned the empty result
C11_WitnessEmpty ==
    /\ rerun /\ pc = "done" /\ step.phase = "bwd"
    /\ included = <<>>

====
